---- MODULE Spec2Model ----
(***************************************************************************)
(* Location extraction, normalization and hierarchy resolution of          *)
(* RiskReportParser (src/main.py).                                         *)
(*                                                                         *)
(* A text is a sequence of characters.  Every Chinese character of the     *)
(* source is written as one ASCII string (its pinyin, with a digit where   *)
(* two characters share a pinyin), so that len(), substring containment    *)
(* and the regular expressions work on characters exactly as in Python:    *)
(*   东莞 = <<"dong","guan">>      印度 = <<"yin","du">>                     *)
(*   印度尼西亚 = <<"yin","du","ni","xi","ya">>                              *)
(***************************************************************************)
EXTENDS Integers, Sequences, FiniteSets, TLC

VARIABLES
    desc,           \* the risk row's description cell (风险描述)
    trigger,        \* the risk detail's 触发条件 field (<<>> when absent)
    summary,        \* the 风险速览 excerpt (<<>> when absent or empty)
    pc,             \* position in the program
    phase,          \* which call of extract_risk_list is running
    locations,      \* the candidate list handed to filter_redundant_locations
    relationships,  \* the dict built by extract_location_relationships
    pattern_idx,    \* index of the pattern being scanned (0..3)
    matches,        \* the matches of re.finditer not yet consumed
    report_locations_list,  \* list(all_report_locations)
    pair_idx,       \* position in the pair loop of the proximity step
    desc_locations, \* result of extract_location_from_text(description)
    detail_locations, \* result of extract_location_from_text(trigger_text)
    risk_locations, \* the '地理位置' field of the finished risk record
    token,          \* argument of a direct call of normalize_location
    normalized,     \* its result
    scanned         \* the dict as the pattern loop left it (lines 120-146)

vars == <<desc, trigger, summary, pc, phase, locations, relationships,
          pattern_idx, matches, report_locations_list, pair_idx,
          desc_locations, detail_locations, risk_locations, token, normalized,
          scanned>>

-----------------------------------------------------------------------------
(* Bounds of the model.                                                    *)

\* a description is at most this many phrases, joined by a comma
MaxDescPhrases == 1
\* longest list handed to a direct call of filter_redundant_locations
MaxLocs == 3
\* most entries of a dynamic relation map in a direct call of the filter
MaxRel == 2
\* longest token over TokenChars in a direct call of normalize_location
MaxTokenLen == 2
\* an item text of a direct call of extract_location_from_text is at most
\* this many words, joined by a comma
MaxItemWords == 2

-----------------------------------------------------------------------------
(* Python values.                                                          *)

\* None, as returned by normalize_location
None == <<"<None>">>

\* '未明确'
Unspecified == <<"wei2", "ming", "que">>

\* Python truthiness of an Optional[str]
Truthy(s) == s # None /\ s # <<>>

\* `kw in text` on strings: substring containment
Contains(text, kw) ==
    \E i \in 1..(Len(text) - Len(kw) + 1) : SubSeq(text, i, i + Len(kw) - 1) = kw

\* `x in list`
InList(x, list) == \E i \in 1..Len(list) : list[i] = x

\* list.append(x) guarded by `x not in list`
AppendNew(list, x) == IF InList(x, list) THEN list ELSE Append(list, x)

\* dict read and write
HasKey(d, k) == k \in DOMAIN d
Put(d, k, v) == [x \in (DOMAIN d) \cup {k} |-> IF x = k THEN v ELSE d[x]]
EmptyDict == [x \in {} |-> <<>>]

-----------------------------------------------------------------------------
(* normalize_location                                                      *)

\* 中部 沿海地区 国内 海外 东南亚 广汽 本田 安世
vague_locations ==
    { <<"zhong", "bu">>, <<"yan", "hai", "di", "qu">>, <<"guo", "nei">>,
      <<"hai", "wai">>, <<"dong", "nan", "ya">>,
      <<"guang", "qi">>, <<"ben", "tian">>, <<"an", "shi2">> }

\* an alias whose target is itself an alias: 印尼 -> 欧盟
abbreviation_map_chained ==
    Put(Put(EmptyDict, <<"yin", "ni">>, <<"ou", "meng">>),
        <<"ou", "meng">>, <<"ou", "zhou">>)

\* 印尼 -> 印度尼西亚,  欧盟 -> 欧洲
abbreviation_map ==
    Put(Put(EmptyDict, <<"yin", "ni">>, <<"yin", "du", "ni", "xi", "ya">>),
        <<"ou", "meng">>, <<"ou", "zhou">>)

normalize_location_no_alias(location) ==
    IF location \in vague_locations THEN None ELSE location

normalize_location_no_exclusion(location) ==
    IF HasKey(abbreviation_map, location) THEN abbreviation_map[location]
    ELSE location

normalize_location(location) ==
    IF location \in vague_locations THEN None
    ELSE IF HasKey(abbreviation_map, location) THEN abbreviation_map[location]
    ELSE location

-----------------------------------------------------------------------------
(* Keyword tables.                                                         *)

\* the list of extract_location_relationships:
\* 荷兰 中国 日本 美国 欧盟 欧洲 德国 法国 英国 澳大利亚 韩国 印度 越南 印尼
\* 印度尼西亚 福岛 莱茵河 鹿儿岛 塞梅鲁 东爪哇 东莞
report_location_keywords ==
    << <<"he", "lan">>, <<"zhong", "guo">>, <<"ri", "ben">>, <<"mei", "guo">>,
       <<"ou", "meng">>, <<"ou", "zhou">>, <<"de", "guo">>, <<"fa", "guo">>,
       <<"ying", "guo">>, <<"ao", "da", "li", "ya">>, <<"han", "guo">>,
       <<"yin", "du">>, <<"yue", "nan">>, <<"yin", "ni">>,
       <<"yin", "du", "ni", "xi", "ya">>,
       <<"fu", "dao">>, <<"lai", "yin2", "he2">>, <<"lu", "er", "dao">>,
       <<"sai", "mei2", "lu2">>, <<"dong", "zhao", "wa">>, <<"dong", "guan">> >>

\* the list of extract_location_from_text: the same, then the vague tokens
\* 中部 沿海地区 国内 海外 东南亚 广汽 本田 安世
location_keywords ==
    report_location_keywords \o
    << <<"zhong", "bu">>, <<"yan", "hai", "di", "qu">>, <<"guo", "nei">>,
       <<"hai", "wai">>, <<"dong", "nan", "ya">>,
       <<"guang", "qi">>, <<"ben", "tian">>, <<"an", "shi2">> >>

\* for keyword in location_keywords: if keyword in text: normalize, append new
RECURSIVE ScanFrom(_, _, _)
ScanFrom(text, k, acc) ==
    IF k > Len(location_keywords) THEN acc
    ELSE LET keyword == location_keywords[k]
             norm == normalize_location(keyword)
         IN  ScanFrom(text, k + 1,
                      IF Contains(text, keyword) /\ Truthy(norm)
                      THEN AppendNew(acc, norm) ELSE acc)

\* a recognition that counts a keyword only where it is not part of a longer
\* keyword occurring in the text
RECURSIVE ScanLongestFrom(_, _, _)
ScanLongestFrom(text, k, acc) ==
    IF k > Len(location_keywords) THEN acc
    ELSE LET keyword == location_keywords[k]
             norm == normalize_location(keyword)
             inside_longer ==
                 \E j \in 1..Len(location_keywords) :
                     /\ Len(location_keywords[j]) > Len(keyword)
                     /\ Contains(location_keywords[j], keyword)
                     /\ Contains(text, location_keywords[j])
         IN  ScanLongestFrom(text, k + 1,
                 IF Contains(text, keyword) /\ ~inside_longer /\ Truthy(norm)
                 THEN AppendNew(acc, norm) ELSE acc)

scan_keywords_longest_only(text) == ScanLongestFrom(text, 1, <<>>)

scan_keywords(text) == ScanFrom(text, 1, <<>>)

-----------------------------------------------------------------------------
(* The regular expressions of extract_location_relationships.              *)

\* characters excluded from both groups: [^\s，,。；;、]
Delimiters == {" ", "\n", "cn_comma", ",", "cn_period", "cn_semicolon", ";", "cn_dun"}

\* (?:火山|山|地区|市|省|县|区|镇|村)
region_suffixes ==
    << <<"huo", "shan">>, <<"shan">>, <<"di", "qu">>, <<"shi">>, <<"sheng">>,
       <<"xian">>, <<"qu">>, <<"zhen">>, <<"cun">> >>

\* (?:省|市|县|区|地区|州)
admin_suffixes ==
    << <<"sheng">>, <<"shi">>, <<"xian">>, <<"qu">>, <<"di", "qu">>, <<"zhou2">> >>

\* (?:位于|属于|在|处于|地处|坐落于)
relation_words ==
    << <<"wei", "yu">>, <<"shu", "yu">>, <<"zai">>, <<"chu", "yu">>,
       <<"di", "chu">>, <<"zuo", "luo", "yu">> >>

\* (?:的|地)
possessive_words == << <<"de2">>, <<"di">> >>

\* X? : the alternatives of X, then the empty match
Optional(alts) == alts \o << <<>> >>

\* Each pattern is  group1(lazy) mid1 mid2 group2(lazy) tail ; a part of the
\* source pattern that is absent is the single empty alternative.
relationship_patterns ==
    << [mid1 |-> Optional(region_suffixes), mid2 |-> relation_words,
        tail |-> admin_suffixes],
       [mid1 |-> << <<>> >>, mid2 |-> relation_words,
        tail |-> Optional(admin_suffixes)],
       [mid1 |-> << <<>> >>, mid2 |-> possessive_words,
        tail |-> admin_suffixes],
       [mid1 |-> admin_suffixes, mid2 |-> possessive_words,
        tail |-> Optional(region_suffixes)] >>

Min(S) == CHOOSE x \in S : \A y \in S : x <= y

\* does word w occur in text t at position j
MatchesAt(t, j, w) ==
    /\ j + Len(w) - 1 <= Len(t)
    /\ \A k \in 1..Len(w) : t[j + k - 1] = w[k]

\* number of consecutive group characters of t from position j
RunLength(t, j) ==
    LET stops == {k \in j..Len(t) : t[k] \in Delimiters}
    IN  IF stops = {} THEN Len(t) - j + 1 ELSE Min(stops) - j

\* the first (in listed order) of the alternatives whose indices are given,
\* 0 if there is none
FirstAlt(good) == IF good = {} THEN 0 ELSE Min(good)

\* the tail of pattern p at position j: position after it, 0 if no match
TailEnd(t, p, j) ==
    LET k == FirstAlt({a \in 1..Len(p.tail) : MatchesAt(t, j, p.tail[a])})
    IN  IF k = 0 THEN 0 ELSE j + Len(p.tail[k])

\* lazy group 2 from position j followed by the tail: its length, 0 if none
Group2Len(t, p, j) ==
    LET lens == {n \in 1..RunLength(t, j) : TailEnd(t, p, j + n) # 0}
    IN  IF lens = {} THEN 0 ELSE Min(lens)

\* mid2 at position j followed by group 2 and the tail: the alternative taken
Mid2Alt(t, p, j) ==
    FirstAlt({b \in 1..Len(p.mid2) :
                /\ MatchesAt(t, j, p.mid2[b])
                /\ Group2Len(t, p, j + Len(p.mid2[b])) # 0})

\* mid1 at position j followed by the rest: the alternative taken
Mid1Alt(t, p, j) ==
    FirstAlt({a \in 1..Len(p.mid1) :
                /\ MatchesAt(t, j, p.mid1[a])
                /\ Mid2Alt(t, p, j + Len(p.mid1[a])) # 0})

\* lazy group 1 from position s followed by the rest: its length, 0 if none
Group1Len(t, p, s) ==
    LET lens == {n \in 1..RunLength(t, s) : Mid1Alt(t, p, s + n) # 0}
    IN  IF lens = {} THEN 0 ELSE Min(lens)

\* the match object of pattern p starting at s (which must match there)
MatchAt(t, p, s) ==
    LET n1 == Group1Len(t, p, s)
        j1 == s + n1
        a  == Mid1Alt(t, p, j1)
        j2 == j1 + Len(p.mid1[a])
        b  == Mid2Alt(t, p, j2)
        j3 == j2 + Len(p.mid2[b])
        n2 == Group2Len(t, p, j3)
    IN  [group1 |-> SubSeq(t, s, j1 - 1),
         group2 |-> SubSeq(t, j3, j3 + n2 - 1),
         end    |-> TailEnd(t, p, j3 + n2)]

\* re.finditer(pattern, content): leftmost non-overlapping matches from pos
RECURSIVE finditer_from(_, _, _)
finditer_from(t, p, pos) ==
    LET starts == {s \in pos..Len(t) : Group1Len(t, p, s) # 0}
    IN  IF starts = {} THEN <<>>
        ELSE LET m == MatchAt(t, p, Min(starts))
             IN  <<[group1 |-> m.group1, group2 |-> m.group2]>>
                 \o finditer_from(t, p, m.end)

finditer(p, t) == finditer_from(t, p, 1)

\* re.sub(r'(?:火山|山|地区|市|省|县|区|镇|村)$', '', s)
strip_region_suffix(s) ==
    LET cuts == {i \in 1..Len(s) :
                    \E k \in 1..Len(region_suffixes) :
                        SubSeq(s, i, Len(s)) = region_suffixes[k]}
    IN  IF cuts = {} THEN s ELSE SubSeq(s, 1, Min(cuts) - 1)

-----------------------------------------------------------------------------
(* Coordinates and distance.                                               *)

\* _get_all_location_coords: name -> (lat, lon), in 1/10000 of a degree
location_coords_table ==
    {
        <<<<"he", "lan">>, <<521326, 52913>>>>,
        <<<<"zhong", "guo">>, <<358617, 1041954>>>>,
        <<<<"ri", "ben">>, <<362048, 1382529>>>>,
        <<<<"mei", "guo">>, <<370902, -957129>>>>,
        <<<<"ou", "meng">>, <<501109, 86821>>>>,
        <<<<"ou", "zhou">>, <<501109, 86821>>>>,
        <<<<"de", "guo">>, <<511657, 104515>>>>,
        <<<<"fa", "guo">>, <<462276, 22137>>>>,
        <<<<"ying", "guo">>, <<553781, -34360>>>>,
        <<<<"ao", "da", "li", "ya">>, <<-252744, 1337751>>>>,
        <<<<"han", "guo">>, <<359078, 1277669>>>>,
        <<<<"yin", "du">>, <<205937, 789629>>>>,
        <<<<"yue", "nan">>, <<140583, 1082772>>>>,
        <<<<"yin", "du", "ni", "xi", "ya">>, <<-7893, 1139213>>>>,
        <<<<"lu", "er", "dao">>, <<315966, 1305571>>>>,
        <<<<"sai", "mei2", "lu2">>, <<-81080, 1129225>>>>,
        <<<<"dong", "zhao", "wa">>, <<-75361, 1122384>>>>,
        <<<<"dong", "guan">>, <<230207, 1137518>>>>,
        <<<<"fu", "dao">>, <<377500, 1404700>>>>,
        <<<<"lai", "yin2", "he2">>, <<500000, 70000>>>>
    }

get_all_location_coords ==
    [name \in {e[1] : e \in location_coords_table} |->
        (CHOOSE e \in location_coords_table : e[1] = name)[2]]

\* The values of _calculate_distance (haversine, R = 6371.0 km) on every pair
\* of registered coordinates that two report locations can have, in metres
\* rounded down: <<{coord1, coord2}, metres>>.
haversine_table ==
    {
      <<{<<521326, 52913>>, <<358617, 1041954>>}, 7486395>>, <<{<<521326, 52913>>, <<362048, 1382529>>}, 9185065>>,
      <<{<<521326, 52913>>, <<370902, -957129>>}, 7506093>>, <<{<<521326, 52913>>, <<501109, 86821>>}, 326342>>,
      <<{<<521326, 52913>>, <<511657, 104515>>}, 371806>>, <<{<<521326, 52913>>, <<462276, 22137>>}, 693500>>,
      <<{<<521326, 52913>>, <<553781, -34360>>}, 677078>>, <<{<<521326, 52913>>, <<-252744, 1337751>>}, 14793048>>,
      <<{<<521326, 52913>>, <<359078, 1277669>>}, 8750489>>, <<{<<521326, 52913>>, <<205937, 789629>>}, 7110443>>,
      <<{<<521326, 52913>>, <<140583, 1082772>>}, 9638098>>, <<{<<521326, 52913>>, <<-7893, 1139213>>}, 11335616>>,
      <<{<<521326, 52913>>, <<315966, 1305571>>}, 9294158>>, <<{<<521326, 52913>>, <<-81080, 1129225>>}, 11918087>>,
      <<{<<521326, 52913>>, <<-75361, 1122384>>}, 11821673>>, <<{<<521326, 52913>>, <<230207, 1137518>>}, 9178080>>,
      <<{<<521326, 52913>>, <<377500, 1404700>>}, 9118846>>, <<{<<521326, 52913>>, <<500000, 70000>>}, 265478>>,
      <<{<<358617, 1041954>>, <<362048, 1382529>>}, 3046755>>, <<{<<358617, 1041954>>, <<370902, -957129>>}, 11647263>>,
      <<{<<358617, 1041954>>, <<501109, 86821>>}, 7388785>>, <<{<<358617, 1041954>>, <<511657, 104515>>}, 7223886>>,
      <<{<<358617, 1041954>>, <<462276, 22137>>}, 8021996>>, <<{<<358617, 1041954>>, <<553781, -34360>>}, 7779554>>,
      <<{<<358617, 1041954>>, <<-252744, 1337751>>}, 7474356>>, <<{<<358617, 1041954>>, <<359078, 1277669>>}, 2118360>>,
      <<{<<358617, 1041954>>, <<205937, 789629>>}, 2983794>>, <<{<<358617, 1041954>>, <<140583, 1082772>>}, 2458406>>,
      <<{<<358617, 1041954>>, <<-7893, 1139213>>}, 4198131>>, <<{<<358617, 1041954>>, <<315966, 1305571>>}, 2475673>>,
      <<{<<358617, 1041954>>, <<-81080, 1129225>>}, 4973868>>, <<{<<358617, 1041954>>, <<-75361, 1122384>>}, 4898460>>,
      <<{<<358617, 1041954>>, <<230207, 1137518>>}, 1699298>>, <<{<<358617, 1041954>>, <<377500, 1404700>>}, 3216179>>,
      <<{<<358617, 1041954>>, <<500000, 70000>>}, 7499865>>, <<{<<362048, 1382529>>, <<370902, -957129>>}, 10150442>>,
      <<{<<362048, 1382529>>, <<501109, 86821>>}, 9218272>>, <<{<<362048, 1382529>>, <<511657, 104515>>}, 9048414>>,
      <<{<<362048, 1382529>>, <<462276, 22137>>}, 9850110>>, <<{<<362048, 1382529>>, <<553781, -34360>>}, 9200421>>,
      <<{<<362048, 1382529>>, <<-252744, 1337751>>}, 6852313>>, <<{<<362048, 1382529>>, <<359078, 1277669>>}, 942751>>,
      <<{<<362048, 1382529>>, <<205937, 789629>>}, 5959299>>, <<{<<362048, 1382529>>, <<140583, 1082772>>}, 3865428>>,
      <<{<<362048, 1382529>>, <<-7893, 1139213>>}, 4821623>>, <<{<<362048, 1382529>>, <<315966, 1305571>>}, 875305>>,
      <<{<<362048, 1382529>>, <<-81080, 1129225>>}, 5593399>>, <<{<<362048, 1382529>>, <<-75361, 1122384>>}, 5571060>>,
      <<{<<362048, 1382529>>, <<230207, 1137518>>}, 2772913>>, <<{<<362048, 1382529>>, <<377500, 1404700>>}, 261345>>,
      <<{<<362048, 1382529>>, <<500000, 70000>>}, 9302249>>, <<{<<370902, -957129>>, <<501109, 86821>>}, 7827439>>,
      <<{<<370902, -957129>>, <<511657, 104515>>}, 7861472>>, <<{<<370902, -957129>>, <<462276, 22137>>}, 7665586>>,
      <<{<<370902, -957129>>, <<553781, -34360>>}, 6830403>>, <<{<<370902, -957129>>, <<-252744, 1337751>>}, 15184485>>,
      <<{<<370902, -957129>>, <<359078, 1277669>>}, 10742649>>, <<{<<370902, -957129>>, <<205937, 789629>>}, 13576672>>,
      <<{<<370902, -957129>>, <<140583, 1082772>>}, 13797915>>, <<{<<370902, -957129>>, <<-7893, 1139213>>}, 14961813>>,
      <<{<<370902, -957129>>, <<315966, 1305571>>}, 10990645>>, <<{<<370902, -957129>>, <<-81080, 1129225>>}, 15688944>>,
      <<{<<370902, -957129>>, <<-75361, 1122384>>}, 15683498>>, <<{<<370902, -957129>>, <<230207, 1137518>>}, 12652730>>,
      <<{<<370902, -957129>>, <<377500, 1404700>>}, 9891673>>, <<{<<370902, -957129>>, <<500000, 70000>>}, 7735290>>,
      <<{<<501109, 86821>>, <<511657, 104515>>}, 171241>>, <<{<<501109, 86821>>, <<462276, 22137>>}, 644985>>,
      <<{<<501109, 86821>>, <<553781, -34360>>}, 1001976>>, <<{<<501109, 86821>>, <<-252744, 1337751>>}, 14608295>>,
      <<{<<501109, 86821>>, <<359078, 1277669>>}, 8740923>>, <<{<<501109, 86821>>, <<205937, 789629>>}, 6872646>>,
      <<{<<501109, 86821>>, <<140583, 1082772>>}, 9480140>>, <<{<<501109, 86821>>, <<-7893, 1139213>>}, 11154908>>,
      <<{<<501109, 86821>>, <<315966, 1305571>>}, 9282492>>, <<{<<501109, 86821>>, <<-81080, 1129225>>}, 11712278>>,
      <<{<<501109, 86821>>, <<-75361, 1122384>>}, 11615092>>, <<{<<501109, 86821>>, <<230207, 1137518>>}, 9070168>>,
      <<{<<501109, 86821>>, <<377500, 1404700>>}, 9165097>>, <<{<<501109, 86821>>, <<500000, 70000>>}, 120717>>,
      <<{<<511657, 104515>>, <<462276, 22137>>}, 815833>>, <<{<<511657, 104515>>, <<553781, -34360>>}, 1032986>>,
      <<{<<511657, 104515>>, <<-252744, 1337751>>}, 14466228>>, <<{<<511657, 104515>>, <<359078, 1277669>>}, 8569682>>,
      <<{<<511657, 104515>>, <<205937, 789629>>}, 6752189>>, <<{<<511657, 104515>>, <<140583, 1082772>>}, 9328431>>,
      <<{<<511657, 104515>>, <<-7893, 1139213>>}, 11010539>>, <<{<<511657, 104515>>, <<315966, 1305571>>}, 9111261>>,
      <<{<<511657, 104515>>, <<-81080, 1129225>>}, 11577420>>, <<{<<511657, 104515>>, <<-75361, 1122384>>}, 11480534>>,
      <<{<<511657, 104515>>, <<230207, 1137518>>}, 8907213>>, <<{<<511657, 104515>>, <<377500, 1404700>>}, 8996262>>,
      <<{<<511657, 104515>>, <<500000, 70000>>}, 275980>>, <<{<<462276, 22137>>, <<553781, -34360>>}, 1091324>>,
      <<{<<462276, 22137>>, <<-252744, 1337751>>}, 15159115>>, <<{<<462276, 22137>>, <<359078, 1277669>>}, 9384179>>,
      <<{<<462276, 22137>>, <<205937, 789629>>}, 7368905>>, <<{<<462276, 22137>>, <<140583, 1082772>>}, 10073071>>,
      <<{<<462276, 22137>>, <<-7893, 1139213>>}, 11721538>>, <<{<<462276, 22137>>, <<315966, 1305571>>}, 9926118>>,
      <<{<<462276, 22137>>, <<-81080, 1129225>>}, 12245073>>, <<{<<462276, 22137>>, <<-75361, 1122384>>}, 12147064>>,
      <<{<<462276, 22137>>, <<230207, 1137518>>}, 9697547>>, <<{<<462276, 22137>>, <<377500, 1404700>>}, 9791218>>,
      <<{<<462276, 22137>>, <<500000, 70000>>}, 549510>>, <<{<<553781, -34360>>, <<-252744, 1337751>>}, 15206035>>,
      <<{<<553781, -34360>>, <<359078, 1277669>>}, 8857779>>, <<{<<553781, -34360>>, <<205937, 789629>>}, 7662650>>,
      <<{<<553781, -34360>>, <<140583, 1082772>>}, 10033066>>, <<{<<553781, -34360>>, <<-7893, 1139213>>}, 11765227>>,
      <<{<<553781, -34360>>, <<315966, 1305571>>}, 9401192>>, <<{<<553781, -34360>>, <<-81080, 1129225>>}, 12393413>>,
      <<{<<553781, -34360>>, <<-75361, 1122384>>}, 12298954>>, <<{<<553781, -34360>>, <<230207, 1137518>>}, 9478839>>,
      <<{<<553781, -34360>>, <<377500, 1404700>>}, 9107523>>, <<{<<553781, -34360>>, <<500000, 70000>>}, 921557>>,
      <<{<<-252744, 1337751>>, <<359078, 1277669>>}, 6832368>>, <<{<<-252744, 1337751>>, <<205937, 789629>>}, 7813452>>,
      <<{<<-252744, 1337751>>, <<140583, 1082772>>}, 5173315>>, <<{<<-252744, 1337751>>, <<-7893, 1139213>>}, 3457432>>,
      <<{<<-252744, 1337751>>, <<315966, 1305571>>}, 6333001>>, <<{<<-252744, 1337751>>, <<-81080, 1129225>>}, 2919725>>,
      <<{<<-252744, 1337751>>, <<-75361, 1122384>>}, 3018182>>, <<{<<-252744, 1337751>>, <<230207, 1137518>>}, 5787587>>,
      <<{<<-252744, 1337751>>, <<377500, 1404700>>}, 7042799>>, <<{<<-252744, 1337751>>, <<500000, 70000>>}, 14728654>>,
      <<{<<359078, 1277669>>, <<205937, 789629>>}, 5016706>>, <<{<<359078, 1277669>>, <<140583, 1082772>>}, 3110777>>,
      <<{<<359078, 1277669>>, <<-7893, 1139213>>}, 4325169>>, <<{<<359078, 1277669>>, <<315966, 1305571>>}, 544311>>,
      <<{<<359078, 1277669>>, <<-81080, 1129225>>}, 5135061>>, <<{<<359078, 1277669>>, <<-75361, 1122384>>}, 5096524>>,
      <<{<<359078, 1277669>>, <<230207, 1137518>>}, 1969007>>, <<{<<359078, 1277669>>, <<377500, 1404700>>}, 1148079>>,
      <<{<<359078, 1277669>>, <<500000, 70000>>}, 8835408>>, <<{<<205937, 789629>>, <<140583, 1082772>>}, 3190290>>,
      <<{<<205937, 789629>>, <<-7893, 1139213>>}, 4484996>>, <<{<<205937, 789629>>, <<315966, 1305571>>}, 5246928>>,
      <<{<<205937, 789629>>, <<-81080, 1129225>>}, 4895149>>, <<{<<205937, 789629>>, <<-75361, 1122384>>}, 4796561>>,
      <<{<<205937, 789629>>, <<230207, 1137518>>}, 3593415>>, <<{<<205937, 789629>>, <<377500, 1404700>>}, 6155619>>,
      <<{<<205937, 789629>>, <<500000, 70000>>}, 6992640>>, <<{<<140583, 1082772>>, <<-7893, 1139213>>}, 1764107>>,
      <<{<<140583, 1082772>>, <<315966, 1305571>>}, 2990680>>, <<{<<140583, 1082772>>, <<-81080, 1129225>>}, 2517513>>,
      <<{<<140583, 1082772>>, <<-75361, 1122384>>}, 2440648>>, <<{<<140583, 1082772>>, <<230207, 1137518>>}, 1151231>>,
      <<{<<140583, 1082772>>, <<377500, 1404700>>}, 4123037>>, <<{<<140583, 1082772>>, <<500000, 70000>>}, 9598607>>,
      <<{<<-7893, 1139213>>, <<315966, 1305571>>}, 4005240>>, <<{<<-7893, 1139213>>, <<-81080, 1129225>>}, 821290>>,
      <<{<<-7893, 1139213>>, <<-75361, 1122384>>}, 773050>>, <<{<<-7893, 1139213>>, <<230207, 1137518>>}, 2647614>>,
      <<{<<-7893, 1139213>>, <<377500, 1404700>>}, 5078053>>, <<{<<-7893, 1139213>>, <<500000, 70000>>}, 11274943>>,
      <<{<<315966, 1305571>>, <<-81080, 1129225>>}, 4796600>>, <<{<<315966, 1305571>>, <<-75361, 1122384>>}, 4766969>>,
      <<{<<315966, 1305571>>, <<230207, 1137518>>}, 1911228>>, <<{<<315966, 1305571>>, <<377500, 1404700>>}, 1134610>>,
      <<{<<315966, 1305571>>, <<500000, 70000>>}, 9377586>>, <<{<<-81080, 1129225>>, <<-75361, 1122384>>}, 98606>>,
      <<{<<-81080, 1129225>>, <<230207, 1137518>>}, 3462529>>, <<{<<-81080, 1129225>>, <<377500, 1404700>>}, 5846310>>,
      <<{<<-81080, 1129225>>, <<500000, 70000>>}, 11832991>>, <<{<<-75361, 1122384>>, <<230207, 1137518>>}, 3401747>>,
      <<{<<-75361, 1122384>>, <<377500, 1404700>>}, 5825198>>, <<{<<-75361, 1122384>>, <<500000, 70000>>}, 11735807>>,
      <<{<<230207, 1137518>>, <<377500, 1404700>>}, 3024200>>, <<{<<230207, 1137518>>, <<500000, 70000>>}, 9183015>>,
      <<{<<377500, 1404700>>, <<500000, 70000>>}, 9245504>>
    }

\* _calculate_distance(coord1, coord2), in metres rounded down
calculate_distance(coord1, coord2) ==
    IF coord1 = coord2 THEN 0
    ELSE (CHOOSE e \in haversine_table : e[1] = {coord1, coord2})[2]

\* `distance < 100` (km), on the distance in metres rounded down
ThresholdKm == 100

-----------------------------------------------------------------------------
(* extract_location_relationships                                          *)

\* a scan that records every valid match, also one whose reverse is in the
\* dict
record_match_no_reverse_check(rel, idx, m) ==
    LET child  == strip_region_suffix(IF idx = 3 THEN m.group2 ELSE m.group1)
        parent == strip_region_suffix(IF idx = 3 THEN m.group1 ELSE m.group2)
        child_normalized  == normalize_location(child)
        parent_normalized == normalize_location(parent)
    IN  IF /\ Truthy(child_normalized) /\ Truthy(parent_normalized)
           /\ child_normalized # parent_normalized
           /\ child_normalized # Unspecified
           /\ parent_normalized # Unspecified
        THEN Put(rel, child_normalized, parent_normalized)
        ELSE rel

\* a scan that records a match without looking at what the two names
\* normalize to
record_match_no_validity_check(rel, idx, m) ==
    LET child  == strip_region_suffix(IF idx = 3 THEN m.group2 ELSE m.group1)
        parent == strip_region_suffix(IF idx = 3 THEN m.group1 ELSE m.group2)
        child_normalized  == normalize_location(child)
        parent_normalized == normalize_location(parent)
    IN  IF (~HasKey(rel, parent_normalized)
              \/ rel[parent_normalized] # child_normalized)
        THEN Put(rel, child_normalized, parent_normalized)
        ELSE rel

\* one iteration of `for match in matches` (pattern index idx is 0-based)
record_match(rel, idx, m) ==
    LET child  == strip_region_suffix(IF idx = 3 THEN m.group2 ELSE m.group1)
        parent == strip_region_suffix(IF idx = 3 THEN m.group1 ELSE m.group2)
        child_normalized  == normalize_location(child)
        parent_normalized == normalize_location(parent)
    IN  IF /\ Truthy(child_normalized) /\ Truthy(parent_normalized)
           /\ child_normalized # parent_normalized
           /\ child_normalized # Unspecified
           /\ parent_normalized # Unspecified
           /\ (~HasKey(rel, parent_normalized)
                 \/ rel[parent_normalized] # child_normalized)
        THEN Put(rel, child_normalized, parent_normalized)
        ELSE rel

\* `for match in matches` over the matches ms of pattern idx
RECURSIVE record_matches(_, _, _)
record_matches(rel, idx, ms) ==
    IF ms = <<>> THEN rel
    ELSE record_matches(record_match(rel, idx, Head(ms)), idx, Tail(ms))

\* `for pattern_idx, pattern in enumerate(relationship_patterns)` from idx on
RECURSIVE scan_patterns(_, _, _)
scan_patterns(rel, idx, text) ==
    IF idx > 3 THEN rel
    ELSE scan_patterns(
             record_matches(rel, idx, finditer(relationship_patterns[idx + 1], text)),
             idx + 1, text)

\* the dict when the textual scan of the content ends
scan_relationships(text) == scan_patterns(EmptyDict, 0, text)

\* all_report_locations: the normalized keywords that occur in the content
all_report_locations(text) ==
    {normalize_location(report_location_keywords[k]) :
        k \in {i \in 1..Len(report_location_keywords) :
                 /\ Contains(text, report_location_keywords[i])
                 /\ Truthy(normalize_location(report_location_keywords[i]))
                 /\ normalize_location(report_location_keywords[i]) # Unspecified}}

\* the elements of all_report_locations in the order the loop over the
\* keywords adds them
RECURSIVE ReportScanFrom(_, _, _)
ReportScanFrom(text, k, acc) ==
    IF k > Len(report_location_keywords) THEN acc
    ELSE LET keyword == report_location_keywords[k]
             norm == normalize_location(keyword)
         IN  ReportScanFrom(text, k + 1,
                            IF Contains(text, keyword) /\ Truthy(norm)
                               /\ norm # Unspecified
                            THEN AppendNew(acc, norm) ELSE acc)

report_locations_in_insertion_order(text) == ReportScanFrom(text, 1, <<>>)

\* list(a_set): the set in some order
ListsOf(S) ==
    {l \in [1..Cardinality(S) -> S] : \A i, j \in 1..Cardinality(S) : l[i] = l[j] => i = j}

\* the pairs (i, j), i < j, in the order of the two nested loops
RECURSIVE PairsFrom(_, _, _)
PairsFrom(n, i, j) ==
    IF i >= n THEN <<>>
    ELSE IF j > n THEN PairsFrom(n, i + 1, i + 2)
    ELSE << <<i, j>> >> \o PairsFrom(n, i, j + 1)

Pairs(n) == PairsFrom(n, 1, 2)

\* the administrative suffixes of the specificity test: 省 市 县 区 州
specific_suffixes == { "sheng", "shi", "xian", "qu", "zhou2" }

\* locX_is_more_specific
is_more_specific(a, b) ==
    \/ Len(a) > Len(b)
    \/ \E k \in 1..Len(a) : a[k] \in specific_suffixes

\* a pair loop that settles a specificity tie by the order of the pair
record_pair_tie_by_order(rel, loc1, loc2) ==
    IF loc1 = loc2 THEN rel
    ELSE IF HasKey(rel, loc1) \/ HasKey(rel, loc2) THEN rel
    ELSE IF ~HasKey(get_all_location_coords, loc1)
            \/ ~HasKey(get_all_location_coords, loc2) THEN rel
    ELSE IF calculate_distance(get_all_location_coords[loc1],
                               get_all_location_coords[loc2])
              < ThresholdKm * 1000
         THEN IF is_more_specific(loc1, loc2) /\ ~is_more_specific(loc2, loc1)
              THEN Put(rel, loc2, loc1)
              ELSE Put(rel, loc1, loc2)
         ELSE rel

\* a pair loop in which, when neither name is more specific, the second
\* name becomes the parent of the first
record_pair_neither_takes_second(rel, loc1, loc2) ==
    IF loc1 = loc2 THEN rel
    ELSE IF HasKey(rel, loc1) \/ HasKey(rel, loc2) THEN rel
    ELSE IF ~HasKey(get_all_location_coords, loc1)
            \/ ~HasKey(get_all_location_coords, loc2) THEN rel
    ELSE IF calculate_distance(get_all_location_coords[loc1],
                               get_all_location_coords[loc2])
              < ThresholdKm * 1000
         THEN IF is_more_specific(loc2, loc1) /\ ~is_more_specific(loc1, loc2)
              THEN Put(rel, loc1, loc2)
              ELSE IF is_more_specific(loc1, loc2) /\ ~is_more_specific(loc2, loc1)
              THEN Put(rel, loc2, loc1)
              ELSE IF ~is_more_specific(loc1, loc2) /\ ~is_more_specific(loc2, loc1)
              THEN Put(rel, loc1, loc2)
              ELSE rel
         ELSE rel

\* the body of the pair loop for (loc1, loc2)
record_pair(rel, loc1, loc2) ==
    IF loc1 = loc2 THEN rel
    ELSE IF HasKey(rel, loc1) \/ HasKey(rel, loc2) THEN rel
    ELSE IF ~HasKey(get_all_location_coords, loc1)
            \/ ~HasKey(get_all_location_coords, loc2) THEN rel
    ELSE IF calculate_distance(get_all_location_coords[loc1],
                               get_all_location_coords[loc2])
              < ThresholdKm * 1000
         THEN IF is_more_specific(loc2, loc1) /\ ~is_more_specific(loc1, loc2)
              THEN Put(rel, loc1, loc2)
              ELSE IF is_more_specific(loc1, loc2) /\ ~is_more_specific(loc2, loc1)
              THEN Put(rel, loc2, loc1)
              ELSE rel
         ELSE rel

\* the pair loop over the list l, from the k-th pair on
RECURSIVE record_pairs(_, _, _)
record_pairs(rel, l, k) ==
    IF k > Len(Pairs(Len(l))) THEN rel
    ELSE LET pr == Pairs(Len(l))[k]
         IN  record_pairs(record_pair(rel, l[pr[1]], l[pr[2]]), l, k + 1)

-----------------------------------------------------------------------------
(* filter_redundant_locations                                              *)

\* 东爪哇->印度尼西亚 塞梅鲁->印度尼西亚 鹿儿岛->日本 福岛->日本 东莞->中国
\* 莱茵河->德国
location_hierarchy ==
    Put(Put(Put(Put(Put(Put(EmptyDict,
        <<"dong", "zhao", "wa">>, <<"yin", "du", "ni", "xi", "ya">>),
        <<"sai", "mei2", "lu2">>, <<"yin", "du", "ni", "xi", "ya">>),
        <<"lu", "er", "dao">>, <<"ri", "ben">>),
        <<"fu", "dao">>, <<"ri", "ben">>),
        <<"dong", "guan">>, <<"zhong", "guo">>),
        <<"lai", "yin2", "he2">>, <<"de", "guo">>)

\* 塞梅鲁->东爪哇
manual_region_to_region ==
    Put(EmptyDict, <<"sai", "mei2", "lu2">>, <<"dong", "zhao", "wa">>)

\* a merge in which the first map wins on a key collision
MergeDicts_first_wins(a, b) ==
    [k \in (DOMAIN a) \cup (DOMAIN b) |-> IF k \in DOMAIN a THEN a[k] ELSE b[k]]

\* {**a, **b}
MergeDicts(a, b) ==
    [k \in (DOMAIN a) \cup (DOMAIN b) |-> IF k \in DOMAIN b THEN b[k] ELSE a[k]]

\* country -> the regions of location_hierarchy that belong to it
country_to_regions ==
    [country \in {location_hierarchy[r] : r \in DOMAIN location_hierarchy} |->
        {r \in DOMAIN location_hierarchy : location_hierarchy[r] = country}]

\* the proper ancestors of k in map m
RECURSIVE AncestorsFrom(_, _, _)
AncestorsFrom(m, k, seen) ==
    IF ~HasKey(m, k) \/ m[k] \in seen THEN seen
    ELSE AncestorsFrom(m, m[k], seen \cup {m[k]})

Ancestors(m, k) == AncestorsFrom(m, k, {})

\* a filter with the test of line 315 inverted: a child is dropped when
\* its parent is not in the list
keep_location_child_needs_parent(loc, locs, region_to_region) ==
    IF HasKey(region_to_region, loc)
    THEN InList(region_to_region[loc], locs)
    ELSE IF HasKey(location_hierarchy, loc)
    THEN TRUE
    ELSE ~(/\ HasKey(country_to_regions, loc)
           /\ \E region \in country_to_regions[loc] : InList(region, locs))

\* a filter that drops a child when any of its ancestors, along the static
\* table overlaid by region_to_region, is in the list
keep_location_any_ancestor(loc, locs, region_to_region) ==
    IF HasKey(region_to_region, loc)
    THEN ~\E A \in Ancestors(MergeDicts(location_hierarchy, region_to_region), loc) :
             InList(A, locs)
    ELSE IF HasKey(location_hierarchy, loc)
    THEN TRUE
    ELSE ~(/\ HasKey(country_to_regions, loc)
           /\ \E region \in country_to_regions[loc] : InList(region, locs))

\* the decision of one iteration of `for loc in locations`: is loc appended
keep_location_drop_static_child(loc, locs, region_to_region) ==
    IF HasKey(region_to_region, loc)
    THEN ~InList(region_to_region[loc], locs)
    ELSE IF HasKey(location_hierarchy, loc)
    THEN ~InList(location_hierarchy[loc], locs)
    ELSE ~(/\ HasKey(country_to_regions, loc)
           /\ \E region \in country_to_regions[loc] : InList(region, locs))

keep_location(loc, locs, region_to_region) ==
    IF HasKey(region_to_region, loc)
    THEN \* a child: skipped when its parent region is in the list
         ~InList(region_to_region[loc], locs)
    ELSE IF HasKey(location_hierarchy, loc)
    THEN \* a region of a country: added whether the country is there or not
         TRUE
    ELSE \* has_specific_region: a country with one of its regions in the list
         ~(/\ HasKey(country_to_regions, loc)
           /\ \E region \in country_to_regions[loc] : InList(region, locs))

\* the loop `for loc in locations`, from index i with `filtered` so far
RECURSIVE FilterFrom(_, _, _, _)
FilterFrom(locs, region_to_region, i, filtered) ==
    IF i > Len(locs) THEN filtered
    ELSE FilterFrom(locs, region_to_region, i + 1,
                    IF keep_location(locs[i], locs, region_to_region)
                    THEN AppendNew(filtered, locs[i])
                    ELSE filtered)

\* the list `filtered` when the loop ends
filtered_locations(locs, dynamic_region_to_region) ==
    FilterFrom(locs, MergeDicts(manual_region_to_region, dynamic_region_to_region),
               1, <<>>)

filter_redundant_locations_no_fallback(locs, dynamic_region_to_region) ==
    IF locs = <<>> THEN locs
    ELSE filtered_locations(locs, dynamic_region_to_region)

filter_redundant_locations_collapse(locs, dynamic_region_to_region) ==
    IF locs = <<>> THEN locs
    ELSE LET filtered == filtered_locations(locs, dynamic_region_to_region)
             kept == IF filtered # <<>> THEN filtered ELSE locs
         IN  [i \in 1..Len(kept) |->
                 IF HasKey(location_hierarchy, kept[i])
                    /\ ~InList(location_hierarchy[kept[i]], locs)
                 THEN location_hierarchy[kept[i]] ELSE kept[i]]

\* filter_redundant_locations, given the result of
\* extract_location_relationships
filter_redundant_locations(locs, dynamic_region_to_region) ==
    IF locs = <<>> THEN locs
    ELSE LET filtered == filtered_locations(locs, dynamic_region_to_region)
         IN  IF filtered # <<>> THEN filtered ELSE locs

-----------------------------------------------------------------------------
(* The documents of the model.                                             *)

\* 塞梅鲁火山位于东爪哇省  东爪哇省的塞梅鲁火山  东莞的中国区  中国的东莞市
\* 福岛县位于东北地区  印尼  工厂停产  东南亚  东爪哇塞梅鲁喷发
\* 东莞的中国区，中国的东莞市  海外的东莞市
DescPhrases ==
    <<
       <<"sai", "mei2", "lu2", "huo", "shan", "wei", "yu", "dong", "zhao", "wa", "sheng">>,
       <<"dong", "zhao", "wa", "sheng", "de2", "sai", "mei2", "lu2", "huo", "shan">>,
       <<"dong", "guan", "de2", "zhong", "guo", "qu">>,
       <<"zhong", "guo", "de2", "dong", "guan", "shi">>,
       <<"fu", "dao", "xian", "wei", "yu", "dong", "bei", "di", "qu">>,
       <<"yin", "ni">>,
       <<"gong", "chang", "ting", "chan">>,
       <<"dong", "nan", "ya">>,
       <<"dong", "zhao", "wa", "sai", "mei2", "lu2", "pen", "fa">>,
       <<"dong", "guan", "de2", "zhong", "guo", "qu", "cn_comma",
         "zhong", "guo", "de2", "dong", "guan", "shi">>,
       <<"hai", "wai", "de2", "dong", "guan", "shi">>
    >>

\* 东莞工厂停产  广汽本田
TriggerPhrases ==
    <<
       <<"dong", "guan", "gong", "chang", "ting", "chan">>,
       <<"guang", "qi", "ben", "tian">>
    >>

\* 福岛  海外
SummaryPhrases ==
    <<
       <<"fu", "dao">>,
       <<"hai", "wai">>
    >>

\* the phrases ps[1], ps[2], ... of a vocabulary joined by the comma '，'
RECURSIVE JoinPhrases(_, _)
JoinPhrases(vocab, ps) ==
    IF ps = <<>> THEN <<>>
    ELSE IF Len(ps) = 1 THEN vocab[ps[1]]
    ELSE vocab[ps[1]] \o <<"cn_comma">> \o JoinPhrases(vocab, Tail(ps))

\* the texts of minPhrases to maxPhrases phrases of a vocabulary
TextsOf(vocab, minPhrases, maxPhrases) ==
    {JoinPhrases(vocab, ps) :
        ps \in UNION {[1..n -> 1..Len(vocab)] : n \in minPhrases..maxPhrases}}

\* self.content: the three excerpts inside the report, separated by the
\* whitespace of the markdown around them
content == summary \o <<"\n">> \o desc \o <<"\n">> \o trigger

-----------------------------------------------------------------------------
(* extract_location_from_text and extract_risk_list                        *)

\* an extraction that scans the summary in every call and adds its
\* locations to those of the text
candidate_locations_with_summary(text, summ) ==
    ScanFrom(summ, 1, scan_keywords(text))

\* the candidates of extract_location_from_text before filtering: the scan
\* of the text, or of the summary when the text yields nothing
candidate_locations(text, summ) ==
    LET found == scan_keywords(text)
    IN  IF found # <<>> THEN found
        ELSE IF summ # <<>> THEN scan_keywords(summ)
        ELSE found

\* return locations if locations else ['未明确']
location_result_no_sentinel(locs) == locs

location_result(locs) == IF locs # <<>> THEN locs ELSE <<Unspecified>>

\* for loc in detail_locations:
\*     if loc not in locations and loc != '未明确': locations.append(loc)
RECURSIVE merge_detail_locations(_, _)
merge_detail_locations(locs, detail) ==
    IF detail = <<>> THEN locs
    ELSE merge_detail_locations(
             IF ~InList(Head(detail), locs) /\ Head(detail) # Unspecified
             THEN Append(locs, Head(detail)) ELSE locs,
             Tail(detail))

NoLocals ==
    /\ relationships' = EmptyDict
    /\ scanned' = EmptyDict
    /\ pattern_idx' = 0
    /\ matches' = <<>>
    /\ report_locations_list' = <<>>
    /\ pair_idx' = 0

Init ==
    /\ desc \in TextsOf(DescPhrases, 1, MaxDescPhrases)
    /\ trigger \in TextsOf(TriggerPhrases, 0, 1)
    /\ summary \in TextsOf(SummaryPhrases, 0, 1)
    /\ pc = "start"
    /\ phase = "desc"
    /\ locations = <<>>
    /\ relationships = EmptyDict
    /\ pattern_idx = 0
    /\ matches = <<>>
    /\ report_locations_list = <<>>
    /\ pair_idx = 0
    /\ desc_locations = <<>>
    /\ detail_locations = <<>>
    /\ risk_locations = <<>>
    /\ token = <<>>
    /\ normalized = <<>>
    /\ scanned = EmptyDict

\* extract_risk_list: locations = self.extract_location_from_text(description),
\* up to its call of the filter
ExtractDescription ==
    /\ pc = "start"
    /\ locations' = candidate_locations(desc, summary)
    /\ phase' = "desc"
    /\ pc' = "call_filter"
    /\ UNCHANGED <<scanned, desc, trigger, summary, relationships, pattern_idx, matches,
                   report_locations_list, pair_idx, desc_locations,
                   detail_locations, risk_locations, token, normalized>>

\* filter_redundant_locations on an empty list returns it at once, and
\* extract_location_from_text returns the sentinel
FilterEmpty ==
    /\ pc = "call_filter"
    /\ locations = <<>>
    /\ phase \in {"desc", "trigger"}
    /\ IF phase = "desc"
       THEN /\ desc_locations' = location_result(filter_redundant_locations(locations, EmptyDict))
            /\ pc' = "after_desc"
            /\ UNCHANGED detail_locations
       ELSE /\ detail_locations' = location_result(filter_redundant_locations(locations, EmptyDict))
            /\ pc' = "after_trigger"
            /\ UNCHANGED desc_locations
    /\ UNCHANGED <<scanned, desc, trigger, summary, phase, locations, relationships,
                   pattern_idx, matches, report_locations_list, pair_idx,
                   risk_locations, token, normalized>>

\* filter_redundant_locations calls extract_location_relationships, which
\* starts with the first pattern
BeginRelationships ==
    /\ pc = "call_filter"
    /\ locations # <<>>
    /\ relationships' = EmptyDict
    /\ pattern_idx' = 0
    /\ matches' = finditer(relationship_patterns[1], content)
    /\ pc' = "scan"
    /\ UNCHANGED <<scanned, desc, trigger, summary, phase, locations,
                   report_locations_list, pair_idx, desc_locations,
                   detail_locations, risk_locations, token, normalized>>

\* one iteration of `for match in matches`
ScanMatch ==
    /\ pc = "scan"
    /\ matches # <<>>
    /\ relationships' = record_match(relationships, pattern_idx, Head(matches))
    /\ matches' = Tail(matches)
    /\ UNCHANGED <<scanned, desc, trigger, summary, pc, phase, locations, pattern_idx,
                   report_locations_list, pair_idx, desc_locations,
                   detail_locations, risk_locations, token, normalized>>

\* the next iteration of `for pattern_idx, pattern in enumerate(...)`
NextPattern ==
    /\ pc = "scan"
    /\ matches = <<>>
    /\ pattern_idx < 3
    /\ pattern_idx' = pattern_idx + 1
    /\ matches' = finditer(relationship_patterns[pattern_idx + 2], content)
    /\ UNCHANGED <<scanned, desc, trigger, summary, pc, phase, locations, relationships,
                   report_locations_list, pair_idx, desc_locations,
                   detail_locations, risk_locations, token, normalized>>

\* a proximity step that collects its relations in a dict of its own
CollectReportLocations_fresh_map ==
    /\ pc = "scan"
    /\ matches = <<>>
    /\ pattern_idx = 3
    /\ \E l \in ListsOf(all_report_locations(content)) :
           report_locations_list' = l
    /\ relationships' = EmptyDict
    /\ scanned' = relationships
    /\ pair_idx' = 1
    /\ pc' = "proximity"
    /\ UNCHANGED <<desc, trigger, summary, phase, locations,
                   pattern_idx, matches, desc_locations, detail_locations,
                   risk_locations, token, normalized>>

\* all_report_locations is collected and listed; a set of strings is listed
\* in an order the hash seed decides
CollectReportLocations ==
    /\ pc = "scan"
    /\ matches = <<>>
    /\ pattern_idx = 3
    /\ \E l \in ListsOf(all_report_locations(content)) :
           report_locations_list' = l
    /\ scanned' = relationships
    /\ pair_idx' = 1
    /\ pc' = "proximity"
    /\ UNCHANGED <<desc, trigger, summary, phase, locations, relationships,
                   pattern_idx, matches, desc_locations, detail_locations,
                   risk_locations, token, normalized>>

PairsLeft == pair_idx <= Len(Pairs(Len(report_locations_list)))

\* one iteration of the pair loop
ProximityPair ==
    /\ pc = "proximity"
    /\ PairsLeft
    /\ LET pr == Pairs(Len(report_locations_list))[pair_idx]
       IN  relationships' = record_pair(relationships,
                                        report_locations_list[pr[1]],
                                        report_locations_list[pr[2]])
    /\ pair_idx' = pair_idx + 1
    /\ UNCHANGED <<scanned, desc, trigger, summary, pc, phase, locations, pattern_idx,
                   matches, report_locations_list, desc_locations,
                   detail_locations, risk_locations, token, normalized>>

\* the filter returns into extract_location_from_text(description)
ReturnDescription ==
    /\ pc = "proximity"
    /\ ~PairsLeft
    /\ phase = "desc"
    /\ desc_locations' =
           location_result(filter_redundant_locations(locations, relationships))
    /\ pc' = "after_desc"
    /\ NoLocals
    /\ UNCHANGED <<desc, trigger, summary, phase, locations, detail_locations,
                   risk_locations, token, normalized>>

\* the risk has a detail block with a trigger text: extract from it
ExtractTrigger ==
    /\ pc = "after_desc"
    /\ trigger # <<>>
    /\ locations' = candidate_locations(trigger, summary)
    /\ phase' = "trigger"
    /\ pc' = "call_filter"
    /\ UNCHANGED <<scanned, desc, trigger, summary, relationships, pattern_idx, matches,
                   report_locations_list, pair_idx, desc_locations,
                   detail_locations, risk_locations, token, normalized>>

\* no detail block or no trigger text: straight to the final filter
SkipTrigger ==
    /\ pc = "after_desc"
    /\ trigger = <<>>
    /\ locations' = desc_locations
    /\ phase' = "final"
    /\ pc' = "call_filter"
    /\ UNCHANGED <<scanned, desc, trigger, summary, relationships, pattern_idx, matches,
                   report_locations_list, pair_idx, desc_locations,
                   detail_locations, risk_locations, token, normalized>>

\* the filter returns into extract_location_from_text(trigger_text)
ReturnTrigger ==
    /\ pc = "proximity"
    /\ ~PairsLeft
    /\ phase = "trigger"
    /\ detail_locations' =
           location_result(filter_redundant_locations(locations, relationships))
    /\ pc' = "after_trigger"
    /\ NoLocals
    /\ UNCHANGED <<desc, trigger, summary, phase, locations, desc_locations,
                   risk_locations, token, normalized>>

\* the detail locations are merged into the description's, and the merged
\* list goes to the filter again
MergeDetail ==
    /\ pc = "after_trigger"
    /\ locations' = merge_detail_locations(desc_locations, detail_locations)
    /\ phase' = "final"
    /\ pc' = "call_filter"
    /\ UNCHANGED <<scanned, desc, trigger, summary, relationships, pattern_idx, matches,
                   report_locations_list, pair_idx, desc_locations,
                   detail_locations, risk_locations, token, normalized>>

\* the merged hierarchy: static table, then manual table, then dynamic
MergedHierarchy ==
    MergeDicts(MergeDicts(location_hierarchy, manual_region_to_region),
               relationships)

\* a filter that follows each location's parents up to a root: from a
\* location whose chain of parents runs into a cycle the walk never returns
ReturnFinal_walks_to_root ==
    /\ pc = "proximity"
    /\ ~PairsLeft
    /\ phase = "final"
    /\ IF \E i \in 1..Len(locations) :
              \E A \in {locations[i]} \cup Ancestors(MergedHierarchy, locations[i]) :
                  A \in Ancestors(MergedHierarchy, A)
       THEN UNCHANGED vars
       ELSE /\ risk_locations' = filter_redundant_locations(locations, relationships)
            /\ pc' = "done"
            /\ NoLocals
            /\ UNCHANGED <<desc, trigger, summary, phase, locations,
                           desc_locations, detail_locations, token, normalized>>

\* the final filter returns and the risk record is appended
ReturnFinal ==
    /\ pc = "proximity"
    /\ ~PairsLeft
    /\ phase = "final"
    /\ risk_locations' = filter_redundant_locations(locations, relationships)
    /\ pc' = "done"
    /\ NoLocals
    /\ UNCHANGED <<desc, trigger, summary, phase, locations, desc_locations,
                   detail_locations, token, normalized>>

Next ==
    \/ ExtractDescription
    \/ FilterEmpty
    \/ BeginRelationships
    \/ ScanMatch
    \/ NextPattern
    \/ CollectReportLocations
    \/ ProximityPair
    \/ ReturnDescription
    \/ ExtractTrigger
    \/ SkipTrigger
    \/ ReturnTrigger
    \/ MergeDetail
    \/ ReturnFinal

Spec == Init /\ [][Next]_vars

\* the steps of BeginRelationships, NextPattern, CollectReportLocations and
\* ProximityPair, by their guards and the position they lead to
ScanStarts ==
    /\ pc = "call_filter"
    /\ locations # <<>>
    /\ pc' = "scan"

PatternAdvances ==
    /\ pc = "scan"
    /\ matches = <<>>
    /\ pattern_idx < 3
    /\ pattern_idx' = pattern_idx + 1

ProximityStarts ==
    /\ pc = "scan"
    /\ matches = <<>>
    /\ pattern_idx = 3
    /\ pc' = "proximity"

PairAdvances ==
    /\ pc = "proximity"
    /\ PairsLeft
    /\ pair_idx' = pair_idx + 1

\* every other step of the parser
OtherSteps ==
    \/ ExtractDescription
    \/ FilterEmpty
    \/ ScanMatch
    \/ ReturnDescription
    \/ ExtractTrigger
    \/ SkipTrigger
    \/ ReturnTrigger
    \/ MergeDetail
    \/ ReturnFinal

\* the parser is one synchronous thread: while a step is left to take, it
\* takes it
FairSpec ==
    /\ Spec
    /\ WF_vars(OtherSteps)
    /\ WF_pc(ScanStarts)
    /\ WF_pattern_idx(PatternAdvances)
    /\ WF_pc(ProximityStarts)
    /\ WF_pair_idx(PairAdvances)

-----------------------------------------------------------------------------
(* Direct calls of filter_redundant_locations: any list of locations, and  *)
(* any relation map extract_location_relationships can return.             *)

\* 塞梅鲁 东爪哇 印度尼西亚 福岛 美国
DirectLocations ==
    { <<"sai", "mei2", "lu2">>, <<"dong", "zhao", "wa">>,
      <<"yin", "du", "ni", "xi", "ya">>, <<"fu", "dao">>, <<"mei", "guo">> }

DirectLists == UNION {[1..n -> DirectLocations] : n \in 0..MaxLocs}

\* no entry maps a location to itself, and no two entries are each other's
\* reverse (lines 141 and 145 of the source refuse both)
DirectMaps ==
    {m \in UNION {[D -> DirectLocations] :
                    D \in {X \in SUBSET DirectLocations : Cardinality(X) <= MaxRel}} :
        \A k \in DOMAIN m : m[k] # k /\ ~(m[k] \in DOMAIN m /\ m[m[k]] = k)}

InitFilter ==
    /\ desc = <<>>
    /\ trigger = <<>>
    /\ summary = <<>>
    /\ pc = "direct_filter"
    /\ phase = "direct"
    /\ locations \in DirectLists
    /\ relationships \in DirectMaps
    /\ pattern_idx = 0
    /\ matches = <<>>
    /\ report_locations_list = <<>>
    /\ pair_idx = 0
    /\ desc_locations = <<>>
    /\ detail_locations = <<>>
    /\ risk_locations = <<>>
    /\ token = <<>>
    /\ normalized = <<>>
    /\ scanned = EmptyDict

DirectFilter ==
    /\ pc = "direct_filter"
    /\ risk_locations' = filter_redundant_locations(locations, relationships)
    /\ pc' = "direct_filter_done"
    /\ UNCHANGED <<scanned, desc, trigger, summary, phase, locations, relationships,
                   pattern_idx, matches, report_locations_list, pair_idx,
                   desc_locations, detail_locations, token, normalized>>

\* the list the call returned is handed to the filter once more, for the
\* same document
DirectFilterAgain ==
    /\ pc = "direct_filter_done"
    /\ risk_locations' = filter_redundant_locations(risk_locations, relationships)
    /\ pc' = "direct_filter_twice"
    /\ UNCHANGED <<scanned, desc, trigger, summary, phase, locations, relationships,
                   pattern_idx, matches, report_locations_list, pair_idx,
                   desc_locations, detail_locations, token, normalized>>

NextFilter ==
    \/ DirectFilter
    \/ DirectFilterAgain

SpecFilter == InitFilter /\ [][NextFilter]_vars

-----------------------------------------------------------------------------
(* Direct calls of normalize_location.                                     *)

\* 印 尼 欧 盟 中 部
TokenChars == {"yin", "ni", "ou", "meng", "zhong", "bu"}

\* every recognized keyword, and every short string over TokenChars
Tokens ==
    {location_keywords[k] : k \in 1..Len(location_keywords)}
    \cup UNION {[1..n -> TokenChars] : n \in 0..MaxTokenLen}

InitNormalize ==
    /\ desc = <<>>
    /\ trigger = <<>>
    /\ summary = <<>>
    /\ pc = "direct_normalize"
    /\ phase = "direct"
    /\ locations = <<>>
    /\ relationships = EmptyDict
    /\ pattern_idx = 0
    /\ matches = <<>>
    /\ report_locations_list = <<>>
    /\ pair_idx = 0
    /\ desc_locations = <<>>
    /\ detail_locations = <<>>
    /\ risk_locations = <<>>
    /\ token \in Tokens
    /\ normalized = <<>>
    /\ scanned = EmptyDict

DirectNormalize ==
    /\ pc = "direct_normalize"
    /\ normalized' = normalize_location(token)
    /\ pc' = "direct_normalize_done"
    /\ UNCHANGED <<scanned, desc, trigger, summary, phase, locations, relationships,
                   pattern_idx, matches, report_locations_list, pair_idx,
                   desc_locations, detail_locations, risk_locations, token>>

\* the result of the call, when it is a name, is normalized once more
DirectNormalizeAgain ==
    /\ pc = "direct_normalize_done"
    /\ normalized # None
    /\ normalized' = normalize_location(normalized)
    /\ pc' = "direct_normalize_twice"
    /\ UNCHANGED <<scanned, desc, trigger, summary, phase, locations, relationships,
                   pattern_idx, matches, report_locations_list, pair_idx,
                   desc_locations, detail_locations, risk_locations, token>>

NextNormalize ==
    \/ DirectNormalize
    \/ DirectNormalizeAgain

SpecNormalize == InitNormalize /\ [][NextNormalize]_vars

-----------------------------------------------------------------------------
(* Direct calls of extract_location_from_text: an item text of a few       *)
(* words, and a relation map of the document around it.                    *)

\* 印度尼西亚  东爪哇  印度  印尼  东莞  海外
ItemWords ==
    << <<"yin", "du", "ni", "xi", "ya">>, <<"dong", "zhao", "wa">>,
       <<"yin", "du">>, <<"yin", "ni">>, <<"dong", "guan">>, <<"hai", "wai">> >>

\* no dynamic relation; 印度 -> 印度尼西亚 (a document with
\* '印度的印度尼西亚省'); 东莞 -> 印度 (a document with '东莞的印度省')
ItemMaps ==
    { EmptyDict,
      Put(EmptyDict, <<"yin", "du">>, <<"yin", "du", "ni", "xi", "ya">>),
      Put(EmptyDict, <<"dong", "guan">>, <<"yin", "du">>) }

InitExtract ==
    /\ desc \in TextsOf(ItemWords, 0, MaxItemWords)
    /\ trigger = <<>>
    /\ summary \in TextsOf(SummaryPhrases, 0, 1)
    /\ pc = "direct_extract"
    /\ phase = "direct"
    /\ locations = <<>>
    /\ relationships \in ItemMaps
    /\ pattern_idx = 0
    /\ matches = <<>>
    /\ report_locations_list = <<>>
    /\ pair_idx = 0
    /\ desc_locations = <<>>
    /\ detail_locations = <<>>
    /\ risk_locations = <<>>
    /\ token = <<>>
    /\ normalized = <<>>
    /\ scanned = EmptyDict

\* extract_location_from_text(desc): the candidates, then the filter with
\* the document's relation map, then the sentinel for an empty list
DirectExtract ==
    /\ pc = "direct_extract"
    /\ locations' = candidate_locations(desc, summary)
    /\ desc_locations' =
           location_result(filter_redundant_locations(
               candidate_locations(desc, summary), relationships))
    /\ pc' = "direct_extract_done"
    /\ UNCHANGED <<scanned, desc, trigger, summary, phase, relationships,
                   pattern_idx, matches, report_locations_list, pair_idx,
                   detail_locations, risk_locations, token, normalized>>

NextExtract == DirectExtract

SpecExtract == InitExtract /\ [][NextExtract]_vars

-----------------------------------------------------------------------------
(* Properties.                                                             *)

Elements(list) == {list[i] : i \in 1..Len(list)}

\* the recognized keywords that occur in a text
keyword_hits(text) ==
    {location_keywords[k] :
        k \in {i \in 1..Len(location_keywords) : Contains(text, location_keywords[i])}}

FilterReturned == pc = "direct_filter_done"

\* the effective map of one filter call as the filter itself builds it:
\* the manual table overlaid by the dynamic relations
RegionToRegion == MergeDicts(manual_region_to_region, relationships)

\* C1: filter_redundant_locations never returns an empty list for a
\* non-empty input; when its loop keeps no location it returns the input
\* list itself.
C1_FilterNeverEmpty ==
    (FilterReturned /\ locations # <<>>) =>
        /\ risk_locations # <<>>
        /\ (\A i \in 1..Len(locations) :
               ~keep_location(locations[i], locations, RegionToRegion))
           => risk_locations = locations

\* a call in which every location is dropped by the loop has returned
C1_Witness ==
    /\ FilterReturned
    /\ locations # <<>>
    /\ \A i \in 1..Len(locations) :
          ~keep_location(locations[i], locations, RegionToRegion)
    /\ risk_locations = locations

\* C2: extract_location_from_text returns at least one element, and returns
\* exactly ['未明确'] if and only if neither the text nor the summary
\* fallback yields a normalized keyword.
C2_SentinelIffNothingFound ==
    /\ pc = "after_desc" =>
          /\ Len(desc_locations) >= 1
          /\ desc_locations = <<Unspecified>>
             <=> (\A kw \in keyword_hits(desc) \cup keyword_hits(summary) :
                     kw \in vague_locations)
    /\ pc = "after_trigger" =>
          /\ Len(detail_locations) >= 1
          /\ detail_locations = <<Unspecified>>
             <=> (\A kw \in keyword_hits(trigger) \cup keyword_hits(summary) :
                     kw \in vague_locations)

\* the description and the summary hold only excluded tokens, and the
\* sentinel came back
C2_Witness ==
    /\ pc = "after_desc"
    /\ keyword_hits(desc) # {}
    /\ keyword_hits(summary) # {}
    /\ desc_locations = <<Unspecified>>

\* C3: the location list of a finished risk record is either exactly
\* ['未明确'] or a list of distinct canonical names without the sentinel.
C3_SentinelNeverMixed ==
    pc = "done" =>
        \/ risk_locations = <<Unspecified>>
        \/ /\ Unspecified \notin Elements(risk_locations)
           /\ \A i, j \in 1..Len(risk_locations) :
                 risk_locations[i] = risk_locations[j] => i = j
           /\ \A x \in Elements(risk_locations) :
                 x \notin vague_locations /\ ~HasKey(abbreviation_map, x)

\* C4 as claimed: a location with a parent in the merged hierarchy (static,
\* manual, dynamic) is dropped when the parent is in the input and kept
\* when it is not, outside the all-dropped fallback.
C4_Original ==
    (FilterReturned /\ filtered_locations(locations, relationships) # <<>>) =>
        \A L \in Elements(locations) :
            HasKey(MergedHierarchy, L) =>
                IF MergedHierarchy[L] \in Elements(locations)
                THEN L \notin Elements(risk_locations)
                ELSE L \in Elements(risk_locations)

\* C4 amended: a location that is a key of the manual table overlaid by the
\* dynamic relations is dropped when its parent there is in the input
\* (outside the all-dropped fallback) and kept when it is not; a location
\* whose only parent is in the static region->country table is kept
\* whether or not its country is in the input.
C4_ParentRule ==
    FilterReturned =>
        \A L \in Elements(locations) :
            /\ (HasKey(RegionToRegion, L) /\ RegionToRegion[L] \in Elements(locations)
                /\ filtered_locations(locations, relationships) # <<>>)
               => L \notin Elements(risk_locations)
            /\ (HasKey(RegionToRegion, L) /\ RegionToRegion[L] \notin Elements(locations))
               => L \in Elements(risk_locations)
            /\ (~HasKey(RegionToRegion, L) /\ HasKey(location_hierarchy, L))
               => L \in Elements(risk_locations)

\* a child was dropped for its dynamic parent, and a static region was kept
\* next to its country
C4_Witness ==
    /\ FilterReturned
    /\ \E L \in Elements(locations) :
          /\ HasKey(relationships, L)
          /\ relationships[L] \in Elements(locations)
          /\ L \notin Elements(risk_locations)
    /\ \E L \in Elements(locations) :
          /\ ~HasKey(RegionToRegion, L) /\ HasKey(location_hierarchy, L)
          /\ location_hierarchy[L] \in Elements(locations)
          /\ L \in Elements(risk_locations)

\* C5: an item text whose recognized keywords are exactly 东莞 and 中国
\* yields exactly ['东莞'], for any document text.
C5_RegionKeptCountryDropped ==
    (pc = "after_desc"
     /\ keyword_hits(desc) = {<<"dong", "guan">>, <<"zhong", "guo">>})
        => desc_locations = <<<<"dong", "guan">>>>

\* C6: every element of the filter's output is an element of its input,
\* and an item text whose only recognized keyword is 福岛 yields exactly
\* ['福岛'], never ['日本'].
C6_NoParentInference ==
    /\ (pc = "after_desc" /\ locations # <<>>) =>
          Elements(desc_locations) \subseteq Elements(locations)
    /\ (pc = "after_trigger" /\ locations # <<>>) =>
          Elements(detail_locations) \subseteq Elements(locations)
    /\ pc = "done" => Elements(risk_locations) \subseteq Elements(locations)
    /\ (pc = "after_desc" /\ keyword_hits(desc) = {<<"fu", "dao">>}) =>
          desc_locations = <<<<"fu", "dao">>>>

\* the description names 福岛 alone and 福岛 came back
C6_Witness ==
    /\ pc = "after_desc"
    /\ keyword_hits(desc) = {<<"fu", "dao">>}
    /\ desc_locations = <<<<"fu", "dao">>>>

\* C7: aliases are normalized before any hierarchy logic: an item text whose
\* only recognized keyword is 印尼 yields exactly ['印度尼西亚'], and no raw
\* alias is ever in a list handed to the filter or returned.
C7_AliasNormalizedFirst ==
    /\ (pc = "after_desc" /\ keyword_hits(desc) = {<<"yin", "ni">>}) =>
          desc_locations = <<<<"yin", "du", "ni", "xi", "ya">>>>
    /\ \A x \in Elements(locations) \cup Elements(desc_locations)
                \cup Elements(detail_locations) \cup Elements(risk_locations) :
          ~HasKey(abbreviation_map, x)

\* the description names 印尼 alone and 印度尼西亚 came back
C7_Witness ==
    /\ pc = "after_desc"
    /\ keyword_hits(desc) = {<<"yin", "ni">>}
    /\ desc_locations = <<<<"yin", "du", "ni", "xi", "ya">>>>

\* C8: the merged hierarchy map used by one filter call is acyclic: no two
\* locations are each other's ancestor.
C8_MergedHierarchyAcyclic ==
    (pc = "proximity" /\ ~PairsLeft) =>
        \A A \in DOMAIN MergedHierarchy : A \notin Ancestors(MergedHierarchy, A)

\* C9: during one run of extract_location_relationships, a child that has a
\* parent recorded keeps that parent for the rest of the scan.
C9_FirstWriterWins ==
    [][(pc = "scan" /\ pc' = "scan") =>
          \A child \in DOMAIN relationships :
              /\ child \in DOMAIN relationships'
              /\ relationships'[child] = relationships[child]]_vars

\* C10: normalize_location has exactly three cases: a token of the
\* exclusion set gives None, a token with a registered alias gives the alias
\* target, every other token comes back unchanged; exclusion goes first.
C10_NormalizeCases ==
    pc = "direct_normalize_done" =>
        /\ token \in vague_locations => normalized = None
        /\ (token \notin vague_locations /\ HasKey(abbreviation_map, token))
           => /\ normalized = abbreviation_map[token]
              /\ normalized # token
        /\ (token \notin vague_locations /\ ~HasKey(abbreviation_map, token))
           => normalized = token

\* an alias was normalized to its target
C10_Witness ==
    /\ pc = "direct_normalize_done"
    /\ token = <<"yin", "ni">>
    /\ normalized = <<"yin", "du", "ni", "xi", "ya">>

\* C11: normalize_location is idempotent: the second call on a name the
\* first call returned gives what the first call gave; no alias target is
\* an alias key or a member of the exclusion set.
C11_NormalizeIdempotent ==
    /\ pc = "direct_normalize_twice" => normalized = normalize_location(token)
    /\ \A k \in DOMAIN abbreviation_map :
          /\ ~HasKey(abbreviation_map, abbreviation_map[k])
          /\ abbreviation_map[k] \notin vague_locations

\* the alias 欧盟 went through two calls and came out as 欧洲
C11_Witness ==
    /\ pc = "direct_normalize_twice"
    /\ token = <<"ou", "meng">>
    /\ normalized = <<"ou", "zhou">>

\* a is a subsequence of b
RECURSIVE IsSubsequence(_, _)
IsSubsequence(a, b) ==
    IF a = <<>> THEN TRUE
    ELSE IF b = <<>> THEN FALSE
    ELSE IF Head(a) = Head(b) THEN IsSubsequence(Tail(a), Tail(b))
    ELSE IsSubsequence(a, Tail(b))

\* C12: for any input list, also one with repeated entries, the list
\* returned by filter_redundant_locations has no duplicate entry and is a
\* subsequence of the input.
C12_DuplicateFreeSubsequence ==
    FilterReturned =>
        /\ \A i, j \in 1..Len(risk_locations) :
              risk_locations[i] = risk_locations[j] => i = j
        /\ IsSubsequence(risk_locations, locations)

\* C13: a location that is a key of several relation sources is decided by
\* the parent of the highest-precedence source alone: by its dynamic parent
\* when it has one, else by its manual parent, whatever the lower sources
\* say (outside the all-dropped fallback).
C13_HighestPrecedenceDecides ==
    (FilterReturned /\ filtered_locations(locations, relationships) # <<>>) =>
        \A L \in Elements(locations) :
            /\ HasKey(relationships, L) =>
                  (L \in Elements(risk_locations)
                     <=> relationships[L] \notin Elements(locations))
            /\ (~HasKey(relationships, L) /\ HasKey(manual_region_to_region, L)) =>
                  (L \in Elements(risk_locations)
                     <=> manual_region_to_region[L] \notin Elements(locations))

\* a location with three different parents, the manual and the static one
\* in the input and the dynamic one not, was kept
C13_Witness ==
    /\ FilterReturned
    /\ \E L \in Elements(locations) :
          /\ HasKey(relationships, L)
          /\ HasKey(manual_region_to_region, L)
          /\ HasKey(location_hierarchy, L)
          /\ relationships[L] \notin Elements(locations)
          /\ manual_region_to_region[L] \in Elements(locations)
          /\ location_hierarchy[L] \in Elements(locations)
          /\ L \in Elements(risk_locations)

\* every child->parent pair of the static table, the manual table and the
\* dynamic relations
HierarchyEdges ==
    {<<k, location_hierarchy[k]>> : k \in DOMAIN location_hierarchy}
    \cup {<<k, manual_region_to_region[k]>> : k \in DOMAIN manual_region_to_region}
    \cup {<<k, relationships[k]>> : k \in DOMAIN relationships}

\* S and everything above it along the edges
RECURSIVE UpwardClosure(_, _)
UpwardClosure(edges, S) ==
    LET T == S \cup {e[2] : e \in {x \in edges : x[1] \in S}}
    IN  IF T = S THEN S ELSE UpwardClosure(edges, T)

\* one of a and b is an ancestor of the other
Related(a, b) ==
    \/ b \in UpwardClosure(HierarchyEdges, {a})
    \/ a \in UpwardClosure(HierarchyEdges, {b})

\* C16: whenever the filter drops a location (outside the all-dropped
\* fallback), its output holds an ancestor or a descendant of that location
\* in the hierarchy of the static, manual and dynamic relations.
C16_NoInformationLost ==
    (FilterReturned /\ filtered_locations(locations, relationships) # <<>>) =>
        \A L \in Elements(locations) \ Elements(risk_locations) :
            \E X \in Elements(risk_locations) : Related(L, X)

\* the filter is about to get the dict of extract_location_relationships
RelationshipsReturned == pc = "proximity" /\ ~PairsLeft

\* C14: the map extract_location_relationships returns depends on the
\* document text alone: in whatever order the set of report locations was
\* listed, the map is the one that the insertion order of the set gives.
C14_OrderIndependent ==
    RelationshipsReturned =>
        relationships =
            record_pairs(scanned, report_locations_in_insertion_order(content), 1)

\* the pattern loop is a function of the document text: the dict it leaves
\* is the one the scan of the four patterns over the content gives
ScannedIsTextual ==
    (pc = "proximity" /\ pair_idx = 1) => scanned = scan_relationships(content)

\* two locations closer than the threshold, neither with an entry, were
\* paired with the later keyword first, and the map came back
C14_Witness ==
    /\ RelationshipsReturned
    /\ Len(report_locations_list) >= 2
    /\ report_locations_list[1] = <<"dong", "zhao", "wa">>
    /\ report_locations_list[2] = <<"sai", "mei2", "lu2">>
    /\ ~HasKey(relationships, <<"dong", "zhao", "wa">>)
    /\ ~HasKey(relationships, <<"sai", "mei2", "lu2">>)

\* C19: the proximity step never changes or removes an entry of the map:
\* from the end of the textual scan to the return, every child keeps the
\* parent it has, so the step only adds entries for children without one.
C19_ProximityKeepsEntries ==
    [][(pc \in {"scan", "proximity"} /\ pc' = "proximity") =>
          \A child \in DOMAIN relationships :
              /\ child \in DOMAIN relationships'
              /\ relationships'[child] = relationships[child]]_vars

\* the pair loop ran over a location that has an entry from the textual
\* scan, and the entry is in the returned map
C19_Witness ==
    /\ RelationshipsReturned
    /\ relationships = scan_relationships(content)
    /\ \E i \in 1..Len(report_locations_list) :
          HasKey(relationships, report_locations_list[i])
    /\ Len(report_locations_list) >= 2

\* C15: the core is total and cycle-safe: every risk item comes out with a
\* location list of at least one entry, whatever relations the document
\* states, also when they form a cycle with the static or manual table.
C15_TotalAndCycleSafe == <>(pc = "done" /\ Len(risk_locations) >= 1)

\* a risk item is finished whose document states a relation that closes a
\* cycle with the static table
C15_Witness ==
    /\ pc = "done"
    /\ Len(risk_locations) >= 1
    /\ LET m == MergeDicts(MergeDicts(location_hierarchy, manual_region_to_region),
                           scan_relationships(content))
       IN  \E A \in DOMAIN m : A \in Ancestors(m, A)

\* The pair loop of the proximity step records nothing: of the registered
\* coordinates only 塞梅鲁 and 东爪哇 are closer than the threshold, and
\* neither name is more specific than the other.  The statements about
\* what the loop records (which side becomes the child, which pairs are
\* skipped, the threshold as the boundary between recording and not) have
\* no case in the parser's runs.
ProximityRecordsNothing ==
    [][(pc = "proximity" /\ pc' = "proximity") =>
          relationships' = relationships]_vars

\* no two registered locations closer than the threshold differ in
\* specificity
NoSpecificPairBelowThreshold ==
    \A a, b \in DOMAIN get_all_location_coords :
        (a # b /\ calculate_distance(get_all_location_coords[a],
                                     get_all_location_coords[b])
                     < ThresholdKm * 1000)
        => (is_more_specific(a, b) <=> is_more_specific(b, a))

\* the pair the pair loop examines at position k of its run
PairAt(k) ==
    LET pr == Pairs(Len(report_locations_list))[k]
    IN  <<report_locations_list[pr[1]], report_locations_list[pr[2]]>>

\* two different locations with registered coordinates, closer than the
\* threshold
ClosePair(a, b) ==
    /\ a # b
    /\ HasKey(get_all_location_coords, a)
    /\ HasKey(get_all_location_coords, b)
    /\ calculate_distance(get_all_location_coords[a], get_all_location_coords[b])
           < ThresholdKm * 1000

\* C21: in the proximity step a pair of close locations of which both or
\* neither are judged more specific records no relationship, in either
\* direction: the map is after the pair what it was before.
C21_TieRecordsNothing ==
    [][(pc = "proximity" /\ pc' = "proximity") =>
          LET a == PairAt(pair_idx)[1]
              b == PairAt(pair_idx)[2]
          IN  (ClosePair(a, b) /\ (is_more_specific(a, b) <=> is_more_specific(b, a)))
              => relationships' = relationships]_vars

\* the pair loop has just examined two close locations of equal length and
\* without suffix, neither of which had an entry, and neither has one now
C21_Witness ==
    /\ pc = "proximity"
    /\ pair_idx >= 2
    /\ LET a == PairAt(pair_idx - 1)[1]
           b == PairAt(pair_idx - 1)[2]
       IN  /\ ClosePair(a, b)
           /\ ~is_more_specific(a, b)
           /\ ~is_more_specific(b, a)
           /\ ~HasKey(relationships, a)
           /\ ~HasKey(relationships, b)
           /\ ~HasKey(scanned, a)
           /\ ~HasKey(scanned, b)

\* the normalized child and parent of a match of pattern idx
MatchChild(idx, m) ==
    normalize_location(strip_region_suffix(IF idx = 3 THEN m.group2 ELSE m.group1))

MatchParent(idx, m) ==
    normalize_location(strip_region_suffix(IF idx = 3 THEN m.group1 ELSE m.group2))

\* no two entries of the map are each other's reverse
NoReversePair(rel) ==
    \A A \in DOMAIN rel : ~(HasKey(rel, rel[A]) /\ rel[rel[A]] = A)

\* C22: the relation map never holds both A->B and B->A: it does not in
\* any state of the scan or of the pair loop, whatever entries were
\* replaced before, and a match whose reverse is recorded leaves the map as
\* it is.
C22_NeverBothDirections ==
    [][/\ NoReversePair(relationships')
       /\ (pc = "scan" /\ matches # <<>>
             /\ HasKey(relationships, MatchParent(pattern_idx, Head(matches)))
             /\ relationships[MatchParent(pattern_idx, Head(matches))]
                  = MatchChild(pattern_idx, Head(matches)))
          => relationships' = relationships]_vars

\* the scan is over, and the text held a match of pattern 3 whose parent
\* has the match's child as its own parent in the map: the match was
\* discarded
C22_Witness ==
    /\ pc = "proximity"
    /\ \E k \in 1..Len(finditer(relationship_patterns[3], content)) :
          LET m == finditer(relationship_patterns[3], content)[k]
          IN  /\ Truthy(MatchChild(2, m))
              /\ Truthy(MatchParent(2, m))
              /\ MatchChild(2, m) # MatchParent(2, m)
              /\ HasKey(relationships, MatchParent(2, m))
              /\ relationships[MatchParent(2, m)] = MatchChild(2, m)
              /\ ~HasKey(relationships, MatchChild(2, m))

\* a name that may stand in the relation map
ValidName(s) ==
    /\ s # None
    /\ s # <<>>
    /\ s \notin vague_locations
    /\ s # Unspecified

\* C23: in every state of extract_location_relationships the relation map
\* has no entry whose child equals its parent, and no key or value that is
\* None, empty, a member of the exclusion set, or the sentinel '未明确'.
C23_EntriesAreValid ==
    \A child \in DOMAIN relationships :
        /\ relationships[child] # child
        /\ ValidName(child)
        /\ ValidName(relationships[child])

\* the scan is over, and the text held a match of pattern 3 with a name of
\* the exclusion set on one side and a location on the other
C23_Witness ==
    /\ pc = "proximity"
    /\ \E k \in 1..Len(finditer(relationship_patterns[3], content)) :
          LET m == finditer(relationship_patterns[3], content)[k]
          IN  /\ strip_region_suffix(m.group1) \in vague_locations
              /\ MatchChild(2, m) = None
              /\ ValidName(MatchParent(2, m))

\* a name that stands in none of the three tables, as a child or as a parent
NoKnownRelation(L) ==
    /\ ~HasKey(location_hierarchy, L)
    /\ ~HasKey(country_to_regions, L)
    /\ ~HasKey(RegionToRegion, L)
    /\ \A k \in DOMAIN RegionToRegion : RegionToRegion[k] # L

\* C24: for a location L without a parent in the effective map: when L is
\* a country of the static table, L is dropped exactly when one of its
\* static regions is in the input list; when L has no known hierarchy
\* relation at all, L is kept.
C24_NoParentRule ==
    FilterReturned =>
        \A L \in Elements(locations) :
            (~HasKey(RegionToRegion, L) /\ ~HasKey(location_hierarchy, L)) =>
                /\ HasKey(country_to_regions, L) =>
                      (L \notin Elements(risk_locations)
                         <=> \E region \in country_to_regions[L] :
                                 InList(region, locations))
                /\ NoKnownRelation(L) => L \in Elements(risk_locations)

\* the locations that the keywords occurring in a text normalize to
NormalizedHits(text) ==
    {normalize_location(kw) : kw \in keyword_hits(text)} \ {None}

\* what extract_location_from_text may return for a text, by where its
\* locations come from
FromTextElseSummary(text, result) ==
    IF NormalizedHits(text) # {}
    THEN Elements(result) \subseteq NormalizedHits(text)
    ELSE IF NormalizedHits(summary) # {}
    THEN result # <<>> /\ Elements(result) \subseteq NormalizedHits(summary)
    ELSE result = <<Unspecified>>

\* C25: extract_location_from_text consults the summary excerpt only when
\* the scan of the item text yields no normalized keyword; when the item
\* text yields a location, every returned location comes from a keyword
\* occurring in the item text.
C25_SummaryOnlyAsFallback ==
    /\ pc = "after_desc" => FromTextElseSummary(desc, desc_locations)
    /\ pc = "after_trigger" => FromTextElseSummary(trigger, detail_locations)

\* the description holds a location and the summary another one, and the
\* call for the description has returned
C25_Witness ==
    /\ pc = "after_desc"
    /\ NormalizedHits(desc) # {}
    /\ NormalizedHits(summary) \ NormalizedHits(desc) # {}
    /\ desc_locations # <<>>

\* C26: the filter is one-hop only: a location is dropped only when its
\* direct effective parent or one of its direct static children is in the
\* input, never because of a transitive ancestor.  With no dynamic
\* relations ['印度尼西亚', '塞梅鲁'] filters to ['塞梅鲁'] and
\* ['印度尼西亚', '塞梅鲁', '东爪哇'] filters to ['东爪哇'].
C26_OneHopOnly ==
    FilterReturned =>
        /\ \A L \in Elements(locations) \ Elements(risk_locations) :
               \/ HasKey(MergedHierarchy, L) /\ InList(MergedHierarchy[L], locations)
               \/ \E region \in DOMAIN location_hierarchy :
                      location_hierarchy[region] = L /\ InList(region, locations)
        /\ (relationships = EmptyDict
              /\ locations = << <<"yin", "du", "ni", "xi", "ya">>, <<"sai", "mei2", "lu2">> >>)
           => risk_locations = << <<"sai", "mei2", "lu2">> >>
        /\ (relationships = EmptyDict
              /\ locations = << <<"yin", "du", "ni", "xi", "ya">>, <<"sai", "mei2", "lu2">>,
                                <<"dong", "zhao", "wa">> >>)
           => risk_locations = << <<"dong", "zhao", "wa">> >>

\* the filter has returned a location whose parent is not in the input
\* while the parent of its parent is: 塞梅鲁 of ['印度尼西亚', '塞梅鲁'],
\* with no dynamic relations
C26_Witness ==
    /\ FilterReturned
    /\ relationships = EmptyDict
    /\ locations = << <<"yin", "du", "ni", "xi", "ya">>, <<"sai", "mei2", "lu2">> >>
    /\ \E L \in Elements(risk_locations) :
          /\ HasKey(MergedHierarchy, L)
          /\ ~InList(MergedHierarchy[L], locations)
          /\ \E A \in Ancestors(MergedHierarchy, L) : InList(A, locations)

\* C27: filter_redundant_locations is idempotent for a fixed document:
\* filtering the result of a call again returns the same list, also when
\* the first call took the all-dropped fallback.
C27_FilterIdempotent ==
    pc = "direct_filter_twice" =>
        risk_locations = filter_redundant_locations(locations, relationships)

\* the result of a call that dropped every location of a list of two or
\* more, and so returned its input, has been filtered again
C27_Witness ==
    /\ pc = "direct_filter_twice"
    /\ Len(locations) >= 2
    /\ filtered_locations(locations, relationships) = <<>>
    /\ risk_locations = locations

\* the dynamic relation map of the document
DocumentRelations ==
    record_pairs(scan_relationships(content),
                 report_locations_in_insertion_order(content), 1)

\* the candidates of the description and of the trigger text, unfiltered,
\* merged as extract_risk_list merges
MergedCandidates ==
    merge_detail_locations(
        candidate_locations(desc, summary),
        IF trigger # <<>> THEN candidate_locations(trigger, summary) ELSE <<>>)

\* C28: the staged filtering in extract_risk_list (filter the description's
\* candidates, filter the trigger text's candidates, merge, filter again)
\* gives the same final list as filter_redundant_locations applied once to
\* the merged unfiltered candidates of the description and the trigger
\* text (the sentinel standing for an empty list).
C28_StagedEqualsSingleFilter ==
    pc = "done" =>
        risk_locations =
            location_result(filter_redundant_locations(MergedCandidates,
                                                       DocumentRelations))

\* C29: in extract_risk_list, when a risk's description yields at least one
\* location, every location of the risk record's final list comes from a
\* keyword occurring in the description or in the trigger-condition text;
\* a location that occurs only in the summary excerpt never enters such a
\* record.
C29_NoSummaryLocationInRecord ==
    (pc = "done" /\ NormalizedHits(desc) # {}) =>
        Elements(risk_locations)
            \subseteq NormalizedHits(desc) \cup NormalizedHits(trigger)

\* the position of x in a list (0 when absent)
IndexOf(x, list) ==
    IF InList(x, list) THEN CHOOSE i \in 1..Len(list) : list[i] = x ELSE 0

\* both '印度' and '印度尼西亚' are candidates, in that order
BothCandidates ==
    /\ InList(<<"yin", "du">>, locations)
    /\ InList(<<"yin", "du", "ni", "xi", "ya">>, locations)
    /\ IndexOf(<<"yin", "du">>, locations)
          < IndexOf(<<"yin", "du", "ni", "xi", "ya">>, locations)

\* C30 as stated: every item text containing '印度尼西亚' yields both '印度'
\* and '印度尼西亚' (in that order) as candidates, and with no dynamic
\* relations the filter keeps both.
C30_Original ==
    (pc = "direct_extract_done"
       /\ Contains(desc, <<"yin", "du", "ni", "xi", "ya">>)) =>
        /\ BothCandidates
        /\ relationships = EmptyDict =>
              /\ InList(<<"yin", "du">>, desc_locations)
              /\ InList(<<"yin", "du", "ni", "xi", "ya">>, desc_locations)

\* C30: every item text containing '印度尼西亚' yields both '印度' and
\* '印度尼西亚' (in that order) as candidates; with no dynamic relations the
\* filter keeps '印度', and keeps '印度尼西亚' exactly when none of its
\* static regions (塞梅鲁, 东爪哇) is among the candidates.
C30_SubstringKeywords ==
    (pc = "direct_extract_done"
       /\ Contains(desc, <<"yin", "du", "ni", "xi", "ya">>)) =>
        /\ BothCandidates
        /\ relationships = EmptyDict =>
              /\ InList(<<"yin", "du">>, desc_locations)
              /\ InList(<<"yin", "du", "ni", "xi", "ya">>, desc_locations)
                    <=> ~\E region \in country_to_regions[<<"yin", "du", "ni", "xi", "ya">>] :
                            InList(region, locations)

\* a call has returned for an item text that contains '印度尼西亚' and no
\* separate '印度', in a document without dynamic relations, and both names
\* are in the result
C30_Witness ==
    /\ pc = "direct_extract_done"
    /\ desc = <<"yin", "du", "ni", "xi", "ya">>
    /\ relationships = EmptyDict
    /\ desc_locations = << <<"yin", "du">>, <<"yin", "du", "ni", "xi", "ya">> >>

====
